---- MODULE Spec2Model ----
(***************************************************************************)
(* Model of github.com/stretchr/slog (src/slog.go): levelled loggers that  *)
(* hand entries over an unbuffered channel to a dispatch goroutine, which  *)
(* forwards them to the reporter of the root logger.                       *)
(***************************************************************************)
EXTENDS Integers, Sequences, FiniteSets, TLC

\* ------------------------------------------------------------------ levels
\* type Level uint8, const ( Nothing = iota; Err; Warn; Info; Everything )
Nothing == 0
Err == 1
Warn == 2
Info == 3
Everything == 4

Levels == Nothing..Everything
RequestLevels == {Err, Warn, Info}

\* ------------------------------------------------------------------ bounds
MaxCalls == 2         \* level-method calls made in one behaviour
MaxLoggers == 5       \* logger objects (the root and its descendants)
MaxFamily == 3        \* logger objects where levels and the mutex are studied
MaxSetSource == 1     \* SetSource calls
MaxSinks == 3         \* reporters passed to one Reporters(...)
MaxFanCalls == 1      \* Log calls made on Reporters(...) values
MaxSetLevel == 1      \* SetLevel calls
MaxSetReporter == 1   \* SetReporter calls
MaxStop == 2          \* Stop calls made by client code

\* The goroutines that call Info/Warn/Err.
Producers == {"p1", "p2"}
Segments == {"child"}
PathSegments == {"child", "grandchild"}
RenameSegments == {"new-source"}
Sinks == {"r1", "r2"}
FanEntries == {"l1", "l2"}
RootSources == {"parent"}
ArgCounts == {0, 1}

\* The client goroutines that configure the root logger.
Controllers == {"main", "aux"}
MainOnly == {"main"}

NoChan == 0           \* the nil channel
NoReporter == 0
NoHolder == ""       \* the nil Reporter
Root == 1             \* the logger made by the package-level New

VARIABLES
    loggers,     \* the logger objects: m, level, r, c, src, stopChan, root
                 \* (and the paths they are meant to have)
    arrays,      \* backing arrays of the src slices
    nchan,       \* channels made so far (channel ids are 1..nchan)
    closed,      \* the closed channels
    gs,          \* the dispatch goroutines launched by Start
    pc,          \* position of each producer inside its level method
    call,        \* the level-method call of each producer (arguments, result)
    entries,     \* the *Log values built so far
    cpc,         \* position of each controller inside SetReporter / Stop
    cwait,       \* the channel a controller receives from in SetReporter
    swaps,       \* the SetReporter calls made so far
    delivered,   \* Reporter.Log invocations, in order
    fault,       \* the panic that ended the program, if any
    counts,      \* calls made so far, per operation
    fan          \* the Log calls made on a Reporters(...) value

vars == <<loggers, arrays, nchan, closed, gs, pc, call, entries, cpc, cwait,
          swaps, delivered, fault, counts, fan>>

\* fault names the goroutine that panicked: a producer p, a dispatch
\* goroutine g or a controller t.
NoFault == [kind |-> "none", p |-> "", g |-> 0, t |-> ""]
NoCall == [h |-> 0, level |-> 0, nargs |-> 0, entry |-> 0, ch |-> 0,
           done |-> FALSE, ret |-> FALSE, passed |-> FALSE, threshold |-> 0,
           afterSetLevel |-> FALSE, stopped |-> FALSE, installed |-> FALSE,
           swapsDone |-> {}]

\* ------------------------------------------------------------------ slices
\* A []string is a window (arr, len) on a backing array of cap elements.
SliceOf(s) == SubSeq(arrays[s.arr].data, 1, s.len)

\* Capacity chosen by append when the backing array is full (Go doubles
\* small slices).
GrowCap(oldcap, need) == IF need > 2 * oldcap THEN need ELSE 2 * oldcap

Pad(seq, n) == seq \o [i \in 1..(n - Len(seq)) |-> ""]

\* append(s, x): the new slice header and the backing arrays afterwards.
AppendSlice(arrs, s, x) ==
    IF s.len < Len(arrs[s.arr].data)
    THEN [slice |-> [arr |-> s.arr, len |-> s.len + 1],
          arrays |-> [arrs EXCEPT ![s.arr].data[s.len + 1] = x]]
    ELSE [slice |-> [arr |-> Len(arrs) + 1, len |-> s.len + 1],
          arrays |-> Append(arrs,
                        [data |-> Pad(Append(SubSeq(arrs[s.arr].data, 1, s.len), x),
                                      GrowCap(Len(arrs[s.arr].data), s.len + 1))])]

\* ------------------------------------------------------------------ state
Running == loggers[Root].c # NoChan /\ loggers[Root].c \notin closed
Stopped == loggers[Root].stopChan \in closed /\ \A t \in Controllers : cpc[t] = "idle"
\* The root is running with a reporter in place and is not being reconfigured.
Installed ==
    /\ Running
    /\ loggers[Root].r # NoReporter
    /\ \A t \in Controllers : cpc[t] = "idle"
SwapsReturned == {k \in 1..Len(swaps) : swaps[k].returned}
Alive == fault.kind = "none"

\* package-level New(source, level): l.root = l; l.Start(); the dispatch
\* goroutine is launched and has not run yet.
Init ==
    \E source \in RootSources, level \in Levels :
        /\ loggers = <<[m |-> NoHolder, level |-> level, r |-> NoReporter,
                        c |-> 1, src |-> [arr |-> 1, len |-> 1],
                        stopChan |-> 2, root |-> Root,
                        path |-> <<source>>, want |-> <<"">>]>>
        /\ arrays = <<[data |-> <<source>>]>>
        /\ nchan = 2
        /\ closed = {}
        /\ gs = <<[pc |-> "launched", ch |-> NoChan, item |-> 0]>>
        /\ pc = [p \in Producers |-> "idle"]
        /\ call = [p \in Producers |-> NoCall]
        /\ entries = <<>>
        /\ cpc = [t \in Controllers |-> "idle"]
        /\ cwait = [t \in Controllers |-> NoChan]
        /\ swaps = <<>>
        /\ delivered = <<>>
        /\ fault = NoFault
        /\ counts = [calls |-> 0, setLevel |-> 0, stop |-> 0, setSource |-> 0]
        /\ fan = [calls |-> <<>>, k |-> 0, pc |-> "idle", log |-> <<>>]

\* ------------------------------------------------------------------ level methods
\* skip with the comparison off by one: l.level <= level
skipInclusive(l, level) == loggers[l].level <= level

\* func (l *logger) skip(level Level) bool: under l.root.m, s := l.level < level
skip(l, level) == loggers[l].level < level

\* Emit without the len(a) == 0 test: a call without arguments goes on to send.
EmitNoArgsTest(p, h, level, nargs) ==
    /\ Alive
    /\ pc[p] = "idle"
    /\ counts.calls < MaxCalls
    /\ h \in DOMAIN loggers
    /\ loggers[loggers[h].root].m = NoHolder
    /\ counts' = [counts EXCEPT !.calls = @ + 1]
    /\ LET c == [NoCall EXCEPT !.h = h, !.level = level, !.nargs = nargs,
                               !.passed = ~skip(h, level),
                               !.threshold = loggers[Root].level,
                               !.afterSetLevel = counts.setLevel > 0,
                               !.stopped = Stopped,
                               !.installed = Installed,
                               !.swapsDone = SwapsReturned]
       IN  IF skip(h, level)
           THEN /\ call' = [call EXCEPT ![p] = [c EXCEPT !.done = TRUE, !.ret = FALSE]]
                /\ pc' = pc
           ELSE /\ call' = [call EXCEPT ![p] = c]
                /\ pc' = [pc EXCEPT ![p] = "passed"]
    /\ UNCHANGED <<loggers, arrays, nchan, closed, gs, entries, cpc, cwait,
                   swaps, delivered, fault, fan>>

\* The part of Info/Warn/Err before the send: the gate and the len(a) test.
\* The call record also keeps what the root's state was when the gate ran.
Emit(p, h, level, nargs) ==
    /\ Alive
    /\ pc[p] = "idle"
    /\ counts.calls < MaxCalls
    /\ h \in DOMAIN loggers
    /\ loggers[loggers[h].root].m = NoHolder
    /\ counts' = [counts EXCEPT !.calls = @ + 1]
    /\ LET c == [NoCall EXCEPT !.h = h, !.level = level, !.nargs = nargs,
                               !.passed = ~skip(h, level),
                               !.threshold = loggers[Root].level,
                               !.afterSetLevel = counts.setLevel > 0,
                               !.stopped = Stopped,
                               !.installed = Installed,
                               !.swapsDone = SwapsReturned]
       IN  IF skip(h, level)
           THEN /\ call' = [call EXCEPT ![p] = [c EXCEPT !.done = TRUE, !.ret = FALSE]]
                /\ pc' = pc
           ELSE IF nargs = 0
           THEN /\ call' = [call EXCEPT ![p] = [c EXCEPT !.done = TRUE, !.ret = TRUE]]
                /\ pc' = pc
           ELSE /\ call' = [call EXCEPT ![p] = c]
                /\ pc' = [pc EXCEPT ![p] = "passed"]
    /\ UNCHANGED <<loggers, arrays, nchan, closed, gs, entries, cpc, cwait,
                   swaps, delivered, fault, fan>>

LogInfo(p, h, nargs) == Emit(p, h, Info, nargs)
LogWarn(p, h, nargs) == Emit(p, h, Warn, nargs)
LogErr(p, h, nargs) == Emit(p, h, Err, nargs)

\* l.root.c <- &Log{When, Data: a, Source: l.src, Level}: the operands are
\* evaluated (the entry is built, the channel is read from l.root) and the
\* producer starts to send.
Send(p) ==
    /\ Alive
    /\ pc[p] = "passed"
    /\ entries' = Append(entries,
                    [level |-> call[p].level, src |-> loggers[call[p].h].src,
                     path |-> loggers[call[p].h].path,
                     want |-> loggers[call[p].h].want,
                     nargs |-> call[p].nargs, by |-> p, h |-> call[p].h,
                     swapsDone |-> call[p].swapsDone,
                     accepted |-> FALSE, swapsBegun |-> -1])
    /\ call' = [call EXCEPT ![p].entry = Len(entries) + 1,
                            ![p].ch = loggers[loggers[call[p].h].root].c]
    /\ pc' = [pc EXCEPT ![p] = "sending"]
    /\ UNCHANGED <<loggers, arrays, nchan, closed, gs, cpc, cwait, swaps,
                   delivered, fault, counts, fan>>

\* A send on a closed channel panics (also when the channel is closed while
\* the sender is blocked on it).
SendOnClosed(p) ==
    /\ Alive
    /\ pc[p] = "sending"
    /\ call[p].ch \in closed
    /\ fault' = [NoFault EXCEPT !.kind = "send on closed channel", !.p = p]
    /\ UNCHANGED <<loggers, arrays, nchan, closed, gs, pc, call, entries, cpc,
                   cwait, swaps, delivered, counts, fan>>

\* The unbuffered hand-off: producer p's send meets dispatch goroutine g's
\* receive (for item := range l.root.c); the level method returns true.
Handoff(p, g) ==
    /\ Alive
    /\ pc[p] = "sending"
    /\ g \in DOMAIN gs
    /\ gs[g].pc = "recv"
    /\ gs[g].ch = call[p].ch
    /\ call[p].ch # NoChan
    /\ call[p].ch \notin closed
    /\ gs' = [gs EXCEPT ![g].pc = "got", ![g].item = call[p].entry]
    /\ entries' = [entries EXCEPT ![call[p].entry].accepted = TRUE,
                                  ![call[p].entry].swapsBegun = Len(swaps)]
    /\ call' = [call EXCEPT ![p].done = TRUE, ![p].ret = TRUE]
    /\ pc' = [pc EXCEPT ![p] = "idle"]
    /\ UNCHANGED <<loggers, arrays, nchan, closed, cpc, cwait, swaps,
                   delivered, fault, counts, fan>>

\* ------------------------------------------------------------------ dispatch goroutine
\* go func() { for item := range l.root.c { l.root.r.Log(item) } }()
\* The range expression is evaluated when the goroutine first runs.
Range(g) ==
    /\ Alive
    /\ g \in DOMAIN gs
    /\ gs[g].pc = "launched"
    /\ gs' = [gs EXCEPT ![g].pc = "recv", ![g].ch = loggers[Root].c]
    /\ UNCHANGED <<loggers, arrays, nchan, closed, pc, call, entries, cpc,
                   cwait, swaps, delivered, fault, counts, fan>>

\* The range loop ends when its channel is closed.
RangeEnd(g) ==
    /\ Alive
    /\ g \in DOMAIN gs
    /\ gs[g].pc = "recv"
    /\ gs[g].ch \in closed
    /\ gs' = [gs EXCEPT ![g].pc = "exit"]
    /\ UNCHANGED <<loggers, arrays, nchan, closed, pc, call, entries, cpc,
                   cwait, swaps, delivered, fault, counts, fan>>

\* l.root.r.Log(item): the reporter is read from the root when the call is
\* made; a call on the nil Reporter panics.
LogCall(g) ==
    /\ Alive
    /\ g \in DOMAIN gs
    /\ gs[g].pc = "got"
    /\ IF loggers[Root].r = NoReporter
       THEN /\ fault' = [NoFault EXCEPT !.kind = "nil reporter", !.g = g]
            /\ UNCHANGED <<gs, delivered>>
       ELSE /\ delivered' = Append(delivered,
                              [entry |-> gs[g].item, r |-> loggers[Root].r, g |-> g])
            /\ gs' = [gs EXCEPT ![g].pc = "inLog"]
            /\ fault' = fault
    /\ UNCHANGED <<loggers, arrays, nchan, closed, pc, call, entries, cpc,
                   cwait, swaps, counts, fan>>

LogReturn(g) ==
    /\ Alive
    /\ g \in DOMAIN gs
    /\ gs[g].pc = "inLog"
    /\ gs' = [gs EXCEPT ![g].pc = "recv", ![g].item = 0]
    /\ UNCHANGED <<loggers, arrays, nchan, closed, pc, call, entries, cpc,
                   cwait, swaps, delivered, fault, counts, fan>>

\* ------------------------------------------------------------------ hierarchy and level
\* New with the path built from the root's path instead of l's.
NewDropsPrefix(l, source) ==
    /\ Alive
    /\ l \in DOMAIN loggers
    /\ Len(loggers) < MaxLoggers
    /\ LET a == AppendSlice(arrays, loggers[Root].src, source)
       IN  /\ arrays' = a.arrays
           /\ loggers' = Append(loggers,
                           [m |-> NoHolder, level |-> loggers[l].level,
                            r |-> NoReporter, c |-> NoChan, src |-> a.slice,
                            stopChan |-> NoChan, root |-> l,
                            path |-> Append(loggers[l].path, source),
                            want |-> Append(loggers[l].want, "")])
    /\ UNCHANGED <<nchan, closed, gs, pc, call, entries, cpc, cwait, swaps,
                   delivered, fault, counts, fan>>

\* func (l *logger) New(source string) Logger:
\*   &logger{level: l.level, src: append(l.src, source), root: l}
\* The record also keeps the path the handle is meant to have (its parent's
\* path with source appended) and, per position, the segment a SetSource has
\* put there ("" where none has).
New(l, source) ==
    /\ Alive
    /\ l \in DOMAIN loggers
    /\ Len(loggers) < MaxLoggers
    /\ LET a == AppendSlice(arrays, loggers[l].src, source)
       IN  /\ arrays' = a.arrays
           /\ loggers' = Append(loggers,
                           [m |-> NoHolder, level |-> loggers[l].level,
                            r |-> NoReporter, c |-> NoChan, src |-> a.slice,
                            stopChan |-> NoChan, root |-> l,
                            path |-> Append(loggers[l].path, source),
                            want |-> Append(loggers[l].want, "")])
    /\ UNCHANGED <<nchan, closed, gs, pc, call, entries, cpc, cwait, swaps,
                   delivered, fault, counts, fan>>

\* SetSource(segment): the handle's own last path segment is replaced: the
\* handle gets a path of its own, a copy with the last segment replaced, so
\* that no other handle's path is written.
SetSource(h, x) ==
    /\ Alive
    /\ h \in DOMAIN loggers
    /\ counts.setSource < MaxSetSource
    /\ counts' = [counts EXCEPT !.setSource = @ + 1]
    /\ LET n == loggers[h].src.len
           old == SliceOf(loggers[h].src)
       IN  /\ arrays' = Append(arrays, [data |-> [old EXCEPT ![n] = x]])
           /\ loggers' = [loggers EXCEPT
                             ![h].src = [arr |-> Len(arrays) + 1, len |-> n],
                             ![h].path = [@ EXCEPT ![n] = x],
                             ![h].want = [@ EXCEPT ![n] = x]]
    /\ UNCHANGED <<nchan, closed, gs, pc, call, entries, cpc, cwait, swaps,
                   delivered, fault, fan>>

\* func (l *logger) SetLevel(level Level), called on the RootLogger:
\*   l.root.level = level under l.root.m
SetLevel(level) ==
    /\ Alive
    /\ counts.setLevel < MaxSetLevel
    /\ loggers[loggers[Root].root].m = NoHolder
    /\ loggers' = [loggers EXCEPT ![loggers[Root].root].level = level]
    /\ counts' = [counts EXCEPT !.setLevel = @ + 1]
    /\ UNCHANGED <<arrays, nchan, closed, gs, pc, call, entries, cpc, cwait,
                   swaps, delivered, fault, fan>>

\* ------------------------------------------------------------------ the mutex, step by step
\* skip, first statement: l.root.m.Lock(), at the start of a level method.
SkipLock(p, h, level, nargs) ==
    /\ Alive
    /\ pc[p] = "idle"
    /\ counts.calls < MaxCalls
    /\ h \in DOMAIN loggers
    /\ loggers[loggers[h].root].m = NoHolder
    /\ loggers' = [loggers EXCEPT ![loggers[h].root].m = p]
    /\ counts' = [counts EXCEPT !.calls = @ + 1]
    /\ call' = [call EXCEPT ![p] = [NoCall EXCEPT !.h = h, !.level = level,
                                                  !.nargs = nargs]]
    /\ pc' = [pc EXCEPT ![p] = "locked"]
    /\ UNCHANGED <<arrays, nchan, closed, gs, entries, cpc, cwait, swaps,
                   delivered, fault, fan>>

\* The record of a call whose gate runs now.
Gated(c) ==
    [c EXCEPT !.passed = ~skip(c.h, c.level),
              !.threshold = loggers[Root].level,
              !.afterSetLevel = counts.setLevel > 0,
              !.stopped = Stopped,
              !.installed = Installed,
              !.swapsDone = SwapsReturned]

\* SkipUnlock with the mutex kept by a call that goes on to send.
SkipUnlockKeepsLock(p) ==
    /\ Alive
    /\ pc[p] = "locked"
    /\ LET c == Gated(call[p])
       IN  IF ~c.passed
           THEN /\ call' = [call EXCEPT ![p] = [c EXCEPT !.done = TRUE, !.ret = FALSE]]
                /\ pc' = [pc EXCEPT ![p] = "idle"]
                /\ loggers' = [loggers EXCEPT ![loggers[call[p].h].root].m = NoHolder]
           ELSE IF c.nargs = 0
           THEN /\ call' = [call EXCEPT ![p] = [c EXCEPT !.done = TRUE, !.ret = TRUE]]
                /\ pc' = [pc EXCEPT ![p] = "idle"]
                /\ loggers' = [loggers EXCEPT ![loggers[call[p].h].root].m = NoHolder]
           ELSE /\ call' = [call EXCEPT ![p] = c]
                /\ pc' = [pc EXCEPT ![p] = "passed"]
                /\ loggers' = loggers
    /\ UNCHANGED <<arrays, nchan, closed, gs, entries, cpc, cwait, swaps,
                   delivered, fault, counts, fan>>

\* skip: s := l.level < level; l.root.m.Unlock(); return s, and the rest of
\* the level method up to the send.
SkipUnlock(p) ==
    /\ Alive
    /\ pc[p] = "locked"
    /\ loggers' = [loggers EXCEPT ![loggers[call[p].h].root].m = NoHolder]
    /\ LET c == Gated(call[p])
       IN  IF ~c.passed
           THEN /\ call' = [call EXCEPT ![p] = [c EXCEPT !.done = TRUE, !.ret = FALSE]]
                /\ pc' = [pc EXCEPT ![p] = "idle"]
           ELSE IF c.nargs = 0
           THEN /\ call' = [call EXCEPT ![p] = [c EXCEPT !.done = TRUE, !.ret = TRUE]]
                /\ pc' = [pc EXCEPT ![p] = "idle"]
           ELSE /\ call' = [call EXCEPT ![p] = c]
                /\ pc' = [pc EXCEPT ![p] = "passed"]
    /\ UNCHANGED <<arrays, nchan, closed, gs, entries, cpc, cwait, swaps,
                   delivered, fault, counts, fan>>

\* SetLevel, first statement: l.root.m.Lock()
SetLevelLock(t) ==
    /\ Alive
    /\ cpc[t] = "idle"
    /\ counts.setLevel < MaxSetLevel
    /\ loggers[loggers[Root].root].m = NoHolder
    /\ loggers' = [loggers EXCEPT ![loggers[Root].root].m = t]
    /\ counts' = [counts EXCEPT !.setLevel = @ + 1]
    /\ cpc' = [cpc EXCEPT ![t] = "sl_locked"]
    /\ UNCHANGED <<arrays, nchan, closed, gs, pc, call, entries, cwait, swaps,
                   delivered, fault, fan>>

\* SetLevel: l.root.level = level
SetLevelStore(t, level) ==
    /\ Alive
    /\ cpc[t] = "sl_locked"
    /\ loggers' = [loggers EXCEPT ![loggers[Root].root].level = level]
    /\ cpc' = [cpc EXCEPT ![t] = "sl_unlock"]
    /\ UNCHANGED <<arrays, nchan, closed, gs, pc, call, entries, cwait, swaps,
                   delivered, fault, counts, fan>>

\* SetLevel: l.root.m.Unlock()
SetLevelUnlock(t) ==
    /\ Alive
    /\ cpc[t] = "sl_unlock"
    /\ loggers' = [loggers EXCEPT ![loggers[Root].root].m = NoHolder]
    /\ cpc' = [cpc EXCEPT ![t] = "idle"]
    /\ UNCHANGED <<arrays, nchan, closed, gs, pc, call, entries, cwait, swaps,
                   delivered, fault, counts, fan>>

\* ------------------------------------------------------------------ Reporters
\* The lists r1..rn that Reporters can be given.
SinkLists == UNION {[1..n -> Sinks] : n \in 0..MaxSinks}

\* All but the state of the Reporters(...) calls is left alone.
FanOnly ==
    UNCHANGED <<loggers, arrays, nchan, closed, gs, pc, call, entries, cpc,
                cwait, swaps, delivered, fault, counts>>

\* Reporters(r1, ..., rn).Log(e) is called.
ReportersLog(list, e) ==
    /\ Alive
    /\ fan.pc = "idle"
    /\ Len(fan.calls) < MaxFanCalls
    /\ fan' = [fan EXCEPT !.calls = Append(@, [list |-> list, e |-> e,
                                               returned |-> FALSE]),
                          !.k = 1, !.pc = "loop"]
    /\ FanOnly

\* The next reporter of the list is invoked with the entry: ri.Log(e).
SinkLog ==
    /\ Alive
    /\ fan.pc = "loop"
    /\ LET c == fan.calls[Len(fan.calls)]
       IN  /\ fan.k <= Len(c.list)
           /\ fan' = [fan EXCEPT !.log = Append(@, [sink |-> c.list[fan.k],
                                                    e |-> c.e,
                                                    call |-> Len(fan.calls),
                                                    returned |-> FALSE]),
                                 !.pc = "inSink"]
    /\ FanOnly

\* SinkReturn that goes on two places in the list.
SinkReturnSkips ==
    /\ Alive
    /\ fan.pc = "inSink"
    /\ fan' = [fan EXCEPT !.log[Len(fan.log)].returned = TRUE,
                          !.k = @ + 2, !.pc = "loop"]
    /\ FanOnly

\* ri.Log(e) returns; the loop goes on to the next reporter.
SinkReturn ==
    /\ Alive
    /\ fan.pc = "inSink"
    /\ fan' = [fan EXCEPT !.log[Len(fan.log)].returned = TRUE,
                          !.k = @ + 1, !.pc = "loop"]
    /\ FanOnly

\* After the last reporter has returned, Reporters(...).Log returns.
ReportersReturn ==
    /\ Alive
    /\ fan.pc = "loop"
    /\ fan.k > Len(fan.calls[Len(fan.calls)].list)
    /\ fan' = [fan EXCEPT !.calls[Len(fan.calls)].returned = TRUE,
                          !.k = 0, !.pc = "idle"]
    /\ FanOnly

\* ------------------------------------------------------------------ lifecycle
\* close(ch) of the controller t, moving it to position next: closing a
\* closed (or nil) channel panics.
Close(t, ch, next) ==
    IF ch = NoChan \/ ch \in closed
    THEN /\ fault' = [NoFault EXCEPT !.kind = "close of closed channel", !.t = t]
         /\ UNCHANGED <<closed, cpc>>
    ELSE /\ closed' = closed \cup {ch}
         /\ cpc' = [cpc EXCEPT ![t] = next]
         /\ fault' = fault

\* func (l *logger) Stop(time.Duration), first statement: close(l.root.c)
Stop(t) ==
    /\ Alive
    /\ cpc[t] = "idle"
    /\ counts.stop < MaxStop
    /\ counts' = [counts EXCEPT !.stop = @ + 1]
    /\ Close(t, loggers[Root].c, "stop_done")
    /\ UNCHANGED <<loggers, arrays, nchan, gs, pc, call, entries, cwait,
                   swaps, delivered, fan>>

\* Stop, second statement: close(l.root.stopChan)
StopDone(t) ==
    /\ Alive
    /\ cpc[t] = "stop_done"
    /\ Close(t, loggers[Root].stopChan, "idle")
    /\ UNCHANGED <<loggers, arrays, nchan, gs, pc, call, entries, cwait,
                   swaps, delivered, counts, fan>>

\* func (l *logger) SetReporter(r Reporter): the call and the first statement
\* of l.root.Stop(stop.NoWait), close(l.root.c).  Each call passes a reporter
\* of its own, numbered by the call.
SetReporter(t) ==
    /\ Alive
    /\ cpc[t] = "idle"
    /\ Cardinality({k \in 1..Len(swaps) : swaps[k].by = t}) < MaxSetReporter
    /\ swaps' = Append(swaps, [old |-> loggers[Root].r, new |-> Len(swaps) + 1,
                               by |-> t, returned |-> FALSE])
    /\ Close(t, loggers[Root].c, "sr_stop_done")
    /\ UNCHANGED <<loggers, arrays, nchan, gs, pc, call, entries, cwait,
                   delivered, counts, fan>>

\* SetReporter: l.root.Stop, second statement: close(l.root.stopChan)
SetReporterStopDone(t) ==
    /\ Alive
    /\ cpc[t] = "sr_stop_done"
    /\ Close(t, loggers[Root].stopChan, "sr_wait")
    /\ UNCHANGED <<loggers, arrays, nchan, gs, pc, call, entries, cwait,
                   swaps, delivered, counts, fan>>

\* SetReporter: <-l.root.StopChan(), the channel operand is evaluated
SetReporterStopChan(t) ==
    /\ Alive
    /\ cpc[t] = "sr_wait"
    /\ cwait' = [cwait EXCEPT ![t] = loggers[Root].stopChan]
    /\ cpc' = [cpc EXCEPT ![t] = "sr_recv"]
    /\ UNCHANGED <<loggers, arrays, nchan, closed, gs, pc, call, entries,
                   swaps, delivered, fault, counts, fan>>

\* SetReporter: the receive from the stop channel completes once it is closed;
\* then l.root.r = r
SetReporterInstall(t) ==
    /\ Alive
    /\ cpc[t] = "sr_recv"
    /\ cwait[t] \in closed
    /\ \E k \in 1..Len(swaps) :
          /\ swaps[k].by = t
          /\ ~swaps[k].returned
          /\ loggers' = [loggers EXCEPT ![Root].r = swaps[k].new]
    /\ cwait' = [cwait EXCEPT ![t] = NoChan]
    /\ cpc' = [cpc EXCEPT ![t] = "sr_start"]
    /\ UNCHANGED <<arrays, nchan, closed, gs, pc, call, entries, swaps,
                   delivered, fault, counts, fan>>

\* func (l *logger) Start(), called by SetReporter:
\*   l.root.c = make(chan *Log); l.root.stopChan = stop.Make()
Start(t) ==
    /\ Alive
    /\ cpc[t] = "sr_start"
    /\ loggers' = [loggers EXCEPT ![Root].c = nchan + 1,
                                  ![Root].stopChan = nchan + 2]
    /\ nchan' = nchan + 2
    /\ cpc' = [cpc EXCEPT ![t] = "sr_go"]
    /\ UNCHANGED <<arrays, closed, gs, pc, call, entries, cwait, swaps,
                   delivered, fault, counts, fan>>

\* Start: go func() {...}() launches a dispatch goroutine; SetReporter returns.
StartGo(t) ==
    /\ Alive
    /\ cpc[t] = "sr_go"
    /\ gs' = Append(gs, [pc |-> "launched", ch |-> NoChan, item |-> 0])
    /\ swaps' = [k \in 1..Len(swaps) |->
                    IF swaps[k].by = t THEN [swaps[k] EXCEPT !.returned = TRUE]
                    ELSE swaps[k]]
    /\ cpc' = [cpc EXCEPT ![t] = "idle"]
    /\ UNCHANGED <<loggers, arrays, nchan, closed, pc, call, entries, cwait,
                   delivered, fault, counts, fan>>

\* ------------------------------------------------------------------ specifications
Dispatchers == 1..(MaxSetReporter * Cardinality(Controllers) + 1)

\* The lifecycle of one root: producers, the dispatch goroutines, Stop and
\* SetReporter.
Next ==
    \/ \E p \in Producers, h \in 1..MaxLoggers, n \in ArgCounts :
          \/ LogInfo(p, h, n)
          \/ LogWarn(p, h, n)
          \/ LogErr(p, h, n)
    \/ \E p \in Producers : Send(p) \/ SendOnClosed(p)
    \/ \E p \in Producers, g \in Dispatchers : Handoff(p, g)
    \/ \E g \in Dispatchers :
          Range(g) \/ RangeEnd(g) \/ LogCall(g) \/ LogReturn(g)
    \/ \E t \in MainOnly :
          \/ Stop(t)
          \/ StopDone(t)
          \/ SetReporter(t)
          \/ SetReporterStopDone(t)
          \/ SetReporterStopChan(t)
          \/ SetReporterInstall(t)
          \/ Start(t)
          \/ StartGo(t)

Spec == Init /\ [][Next]_vars

\* Reconfiguration of one root by two goroutines at once, each calling
\* SetReporter and Stop, while one producer logs on the root.
NextReconfig ==
    \/ \E n \in ArgCounts : LogInfo("p1", Root, n)
    \/ Send("p1") \/ SendOnClosed("p1")
    \/ \E g \in Dispatchers :
          Handoff("p1", g) \/ Range(g) \/ RangeEnd(g) \/ LogCall(g) \/ LogReturn(g)
    \/ \E t \in Controllers :
          \/ Stop(t)
          \/ StopDone(t)
          \/ SetReporter(t)
          \/ SetReporterStopDone(t)
          \/ SetReporterStopChan(t)
          \/ SetReporterInstall(t)
          \/ Start(t)
          \/ StartGo(t)

SpecReconfig == Init /\ [][NextReconfig]_vars

\* The mutex taken and released in steps of their own: one producer calls
\* Info on the handles of a hierarchy while one goroutine calls SetLevel and
\* another SetReporter.
NextMutex ==
    \/ \E h \in 1..MaxLoggers, n \in ArgCounts : SkipLock("p1", h, Info, n)
    \/ SkipUnlock("p1") \/ Send("p1") \/ SendOnClosed("p1")
    \/ \E g \in Dispatchers :
          Handoff("p1", g) \/ Range(g) \/ RangeEnd(g) \/ LogCall(g) \/ LogReturn(g)
    \/ \E l \in 1..MaxFamily, source \in Segments :
          Len(loggers) < MaxFamily /\ New(l, source)
    \/ SetLevelLock("aux") \/ SetLevelUnlock("aux")
    \/ \E level \in Levels : SetLevelStore("aux", level)
    \/ \E t \in MainOnly :
          \/ SetReporter(t)
          \/ SetReporterStopDone(t)
          \/ SetReporterStopChan(t)
          \/ SetReporterInstall(t)
          \/ Start(t)
          \/ StartGo(t)

SpecMutex == Init /\ [][NextMutex]_vars

\* Hierarchies of handles: New on any handle, and one producer that calls Err
\* with an argument on any of them.
NextPaths ==
    \/ \E l \in 1..MaxLoggers, source \in PathSegments : New(l, source)
    \/ \E h \in 1..MaxLoggers : LogErr("p1", h, 1)
    \/ Send("p1")
    \/ \E g \in Dispatchers : Range(g) \/ Handoff("p1", g)

SpecPaths == Init /\ [][NextPaths]_vars

\* Renaming: SetSource on the handles of a small hierarchy, before and after
\* New, while one producer calls Err with an argument.
NextRename ==
    \/ \E l \in 1..MaxFamily, source \in Segments :
          Len(loggers) < MaxFamily /\ New(l, source)
    \/ \E h \in 1..MaxFamily, x \in RenameSegments : SetSource(h, x)
    \/ \E h \in 1..MaxFamily : LogErr("p1", h, 1)
    \/ Send("p1")
    \/ \E g \in Dispatchers : Range(g) \/ Handoff("p1", g)

SpecRename == Init /\ [][NextRename]_vars

\* Log calls on Reporters(...) values, made directly as TestMultipleReporters
\* does.
NextFanOut ==
    \/ \E list \in SinkLists, e \in FanEntries : ReportersLog(list, e)
    \/ SinkLog
    \/ SinkReturn
    \/ ReportersReturn

SpecFanOut == Init /\ [][NextFanOut]_vars

\* The hierarchy and the threshold: New, SetLevel and the level methods of
\* one caller on every logger, up to the start of the send.
NextLevels ==
    \/ \E h \in 1..MaxLoggers, n \in ArgCounts :
          \/ LogInfo("p1", h, n)
          \/ LogWarn("p1", h, n)
          \/ LogErr("p1", h, n)
    \/ Send("p1")
    \/ \E l \in 1..MaxFamily, source \in Segments :
          Len(loggers) < MaxFamily /\ New(l, source)
    \/ \E level \in Levels : SetLevel(level)

SpecLevels == Init /\ [][NextLevels]_vars

\* The gate of the root logger: SetLevel and the level methods of the root,
\* with the dispatch goroutine receiving.
NextGate ==
    \/ \E p \in Producers, n \in ArgCounts :
          \/ LogInfo(p, Root, n)
          \/ LogWarn(p, Root, n)
          \/ LogErr(p, Root, n)
    \/ \E p \in Producers : Send(p)
    \/ \E p \in Producers, g \in Dispatchers : Handoff(p, g)
    \/ \E g \in Dispatchers : Range(g) \/ LogCall(g)
    \/ \E level \in Levels : SetLevel(level)

SpecGate == Init /\ [][NextGate]_vars

\* ------------------------------------------------------------------ properties
\* C1: swap atomicity of SetReporter.  An entry whose level method returned
\* before a SetReporter call was made is never passed to the reporter of that
\* call, and an entry whose level method was called after a SetReporter call
\* returned is never passed to the reporter that call replaced.
SwapAtomicity ==
    \A i \in 1..Len(delivered) :
        LET e == entries[delivered[i].entry]
        IN  /\ e.swapsBegun >= 0 => delivered[i].r <= e.swapsBegun
            /\ \A k \in e.swapsDone : delivered[i].r # swaps[k].old

\* C2: a level method called with arguments after Stop has returned (and no
\* restart followed) returns false and does not panic.
EmitAfterStopReturnsFalse ==
    \A p \in Producers :
        (call[p].stopped /\ call[p].nargs > 0) =>
            /\ loggers[Root].stopChan \in closed
            /\ call[p].done => ~call[p].ret
            /\ ~(fault.kind = "send on closed channel" /\ fault.p = p)

\* C3: a producer that passed the gate while the root was running never sends
\* on a closed channel, however Stop interleaves with it.
StopRaceIsClean ==
    fault.kind = "send on closed channel" => call[fault.p].stopped

\* C4: after SetLevel(T) has returned, the zero-argument level method for L
\* of every logger of the hierarchy returns true iff T >= L.
SetLevelReachesDescendants ==
    \A p \in Producers :
        (call[p].done /\ call[p].nargs = 0 /\ call[p].afterSetLevel) =>
            call[p].ret = (call[p].threshold >= call[p].level)

\* C5: every logger made by a chain of New calls holds the original root as
\* its root, and a level method of any of them sends on the root's channel.
RootBackReference ==
    /\ \A h \in DOMAIN loggers : loggers[h].root = Root
    /\ \A p \in Producers : pc[p] = "sending" => call[p].ch = loggers[Root].c

Deliveries(e) == Cardinality({i \in 1..Len(delivered) : delivered[i].entry = e})

\* C6: every entry the dispatch goroutine received is passed to a reporter
\* exactly once: never twice, and an entry received and not yet passed on is
\* held by a live dispatch goroutine that is about to call the reporter.
ExactlyOnceDelivery ==
    \A e \in 1..Len(entries) :
        /\ Deliveries(e) <= 1
        /\ (entries[e].accepted /\ Deliveries(e) = 0) =>
              /\ Alive
              /\ \E g \in DOMAIN gs : gs[g].pc = "got" /\ gs[g].item = e

\* C7: the reporter is invoked with the entries of one producer in the order
\* the producer made the calls (entries are numbered in the order built).
PerProducerOrder ==
    \A i, j \in 1..Len(delivered) :
        (i < j /\ entries[delivered[i].entry].by = entries[delivered[j].entry].by)
            => delivered[i].entry < delivered[j].entry

\* C8: at most one dispatch goroutine serves the current channel of a running
\* root, and the reporter is never being invoked by two goroutines at once.
SingleConsumer ==
    /\ Cardinality({g \in DOMAIN gs : gs[g].pc = "inLog"}) <= 1
    /\ Running =>
          Cardinality({g \in DOMAIN gs : /\ gs[g].pc \in {"recv", "got", "inLog"}
                                         /\ gs[g].ch = loggers[Root].c}) <= 1

\* C9: on the root logger the level method for L returns true iff the
\* threshold T (given to New or set by SetLevel) satisfies T >= L, with or
\* without arguments; a call that goes on to send has T >= L.
RootGate ==
    \A p \in Producers :
        call[p].h = Root =>
            /\ call[p].done => call[p].ret = (call[p].threshold >= call[p].level)
            /\ pc[p] \in {"passed", "sending"} => call[p].threshold >= call[p].level

\* C9 witness: after a SetLevel, a call with an argument at exactly the
\* threshold returned true and one above the threshold returned false.
RootGateWitness ==
    /\ counts.setLevel > 0
    /\ call["p1"].h = Root /\ call["p1"].done /\ call["p1"].nargs = 1
    /\ call["p1"].ret /\ call["p1"].level = call["p1"].threshold
    /\ call["p2"].h = Root /\ call["p2"].done /\ call["p2"].nargs = 0
    /\ ~call["p2"].ret /\ call["p2"].level > call["p2"].threshold

\* C10: a level-method call without arguments, or whose gate fails, returns at
\* once and changes neither the loggers (threshold, reporter, channel, done
\* signal) nor the channels, entries and dispatch goroutines; an entry is
\* built only for a call with an argument whose gate passed.
OnlyGatedCallsWithArgsSend ==
    [][\A p \in Producers :
          /\ (pc[p] = "idle" /\ call'[p] # call[p]
                /\ (call'[p].nargs = 0 \/ ~call'[p].passed)) =>
                /\ pc'[p] = "idle"
                /\ call'[p].done
                /\ UNCHANGED <<loggers, arrays, nchan, closed, entries, gs>>
          /\ (pc[p] = "passed" /\ Len(entries') > Len(entries)) =>
                /\ entries'[Len(entries')].nargs >= 1
                /\ call[p].passed
      ]_vars

\* C10 witness: calls with and without an argument were made on a descendant
\* whose gate fails, and no entry exists.
OnlyGatedCallsWithArgsSendWitness ==
    /\ call["p1"].done /\ call["p1"].h # Root /\ call["p1"].h # 0
    /\ call["p1"].nargs = 1 /\ ~call["p1"].ret
    /\ counts.calls = 2
    /\ entries = <<>>


\* C11: a level method with arguments returns true only after a dispatch
\* goroutine has received its entry; and a call made on a running root with a
\* reporter in place, which has not been reconfigured since, is not left
\* waiting in a program that has panicked (it can still return).
BlockingHandoffProgress ==
    \A p \in Producers :
        /\ (call[p].done /\ call[p].ret /\ call[p].nargs > 0) =>
              entries[call[p].entry].accepted
        /\ (/\ pc[p] \in {"passed", "sending"}
            /\ call[p].installed
            /\ Installed
            /\ Len(swaps) = Cardinality(call[p].swapsDone)) => Alive

\* C12: a second Stop on a root that is already stopped does not panic: no
\* Stop call finds the hand-off channel or the done channel closed.
SecondStopIsSafe ==
    ~(/\ fault.kind = "close of closed channel"
      /\ cpc[fault.t] \in {"idle", "stop_done"}
      /\ counts.stop = 2
      /\ swaps = <<>>)

\* C17: the done channel of a Start is closed only after the dispatch
\* goroutine serving that Start's hand-off channel has left its loop (Start
\* makes the hand-off channel and then its done channel).
DoneAfterDispatchExit ==
    \A g \in DOMAIN gs :
        gs[g].pc \in {"recv", "got", "inLog"} => (gs[g].ch + 1) \notin closed

\* C20: the dispatch goroutine never calls Log on the nil Reporter.
ReporterNeverNil ==
    fault.kind # "nil reporter"


\* Controller t is inside a SetReporter call.
InSetReporter(t) ==
    \E k \in 1..Len(swaps) : swaps[k].by = t /\ ~swaps[k].returned

\* C13: SetReporter calls and Stop calls made by two goroutines at once do not
\* panic; and once two SetReporter calls have both returned (no Stop made),
\* the root has an open hand-off channel served by exactly one dispatch
\* goroutine, and its reporter is one of the two that were passed.
ConcurrentReconfigIsClean ==
    /\ ~(/\ fault.kind = "close of closed channel"
         /\ \E t \in Controllers :
               /\ t # fault.t
               /\ cpc[t] # "idle"
               /\ InSetReporter(t) \/ InSetReporter(fault.t))
    /\ (/\ Alive
        /\ Len(swaps) = 2
        /\ \A k \in 1..Len(swaps) : swaps[k].returned
        /\ counts.stop = 0) =>
           /\ loggers[Root].c \notin closed
           /\ loggers[Root].r \in {swaps[1].new, swaps[2].new}
           /\ Cardinality({g \in DOMAIN gs :
                  \/ gs[g].pc = "launched"
                  \/ gs[g].pc # "exit" /\ gs[g].ch = loggers[Root].c}) = 1


\* C18: the root's reporter is read and written only under the root's mutex:
\* the dispatch goroutine is never about to read l.root.r for its Log call
\* while a SetReporter call is about to write it, unless one of the two holds
\* the root's mutex (only SetReporter's goroutine can: dispatch goroutines
\* never lock).
ReporterUnderMutex ==
    \A g \in DOMAIN gs, t \in Controllers :
        (/\ gs[g].pc = "got"
         /\ cpc[t] = "sr_recv"
         /\ cwait[t] \in closed) => loggers[Root].m = t

\* C19: a mutex is held only between the Lock and the Unlock of skip or of
\* SetLevel: its holder is a producer inside skip on a handle whose parent
\* owns the mutex, or the goroutine inside SetLevel, so it is never a producer
\* that sends or a dispatch goroutine; and whoever is inside skip or SetLevel
\* holds the mutex and can take its next step, the Unlock.
MutexOnlyAroundLevel ==
    /\ \A l \in DOMAIN loggers :
          loggers[l].m # NoHolder =>
             \/ /\ loggers[l].m \in Producers
                /\ pc[loggers[l].m] = "locked"
                /\ loggers[call[loggers[l].m].h].root = l
             \/ /\ loggers[l].m \in Controllers
                /\ cpc[loggers[l].m] \in {"sl_locked", "sl_unlock"}
                /\ l = loggers[Root].root
    /\ \A p \in Producers :
          pc[p] = "locked" =>
             /\ loggers[loggers[call[p].h].root].m = p
             /\ Alive => ENABLED SkipUnlock(p)
    /\ \A t \in Controllers :
          cpc[t] \in {"sl_locked", "sl_unlock"} => loggers[loggers[Root].root].m = t

\* C19, its case: the producer has released the mutex and is blocked in its
\* send while SetLevel holds the mutex and a dispatch goroutine is inside the
\* reporter's Log.
MutexOnlyAroundLevelWitness ==
    /\ pc["p1"] = "sending"
    /\ loggers[Root].m = "aux"
    /\ \E g \in DOMAIN gs : gs[g].pc = "inLog"


\* C14: every entry carries the source path of the handle that emitted it:
\* the path of the handle it was created from with its own segment appended,
\* the root's segment first.
SourcePathComposition ==
    \A e \in DOMAIN entries : SliceOf(entries[e].src) = entries[e].path

SinkCallsOf(c) ==
    LET Mine(r) == r.call = c
    IN  SelectSeq(fan.log, Mine)

\* C16: Reporters(r1, ..., rn).Log(e) invokes r1, ..., rn in list order, each
\* once and with the entry e itself, one at a time, and it returns only after
\* rn has been invoked and has returned.
FanOutInOrder ==
    \A c \in DOMAIN fan.calls :
        LET list == fan.calls[c].list
            mine == SinkCallsOf(c)
        IN  /\ Len(mine) <= Len(list)
            /\ \A j \in DOMAIN mine :
                  /\ mine[j].sink = list[j]
                  /\ mine[j].e = fan.calls[c].e
                  /\ j < Len(mine) => mine[j].returned
            /\ fan.calls[c].returned =>
                  /\ Len(mine) = Len(list)
                  /\ \A j \in DOMAIN mine : mine[j].returned

\* C16, its case: a Log call on Reporters(r1, r2, r1) has returned.
FanOutInOrderWitness ==
    \E c \in DOMAIN fan.calls :
        /\ fan.calls[c].returned
        /\ fan.calls[c].list = <<"r1", "r2", "r1">>
        /\ Len(SinkCallsOf(c)) = 3


\* C21: New does not change what exists: in a step that creates a handle, the
\* source path of every handle that existed before and the source of every
\* entry built before stay as they were.
NewLeavesPathsAlone ==
    [][Len(loggers') > Len(loggers) =>
          /\ \A h \in DOMAIN loggers :
                SliceOf(loggers[h].src)' = SliceOf(loggers[h].src)
          /\ \A e \in DOMAIN entries :
                SliceOf(entries[e].src)' = SliceOf(entries[e].src)]_vars

\* C22: when the only producer's call with arguments has returned true, on a
\* root that had its reporter in place when the gate ran and has not been
\* stopped or reconfigured since, the reporter has been invoked with the
\* call's entry, once; and the reporter has been invoked with no entry whose
\* call has not returned true.
DeliveryVisibleOnReturn ==
    /\ \A p \in Producers :
          (/\ call[p].done /\ call[p].ret /\ call[p].nargs > 0
           /\ \A q \in Producers \ {p} : call[q] = NoCall
           /\ call[p].installed
           /\ Installed
           /\ Len(swaps) = Cardinality(call[p].swapsDone)
           /\ counts.stop = 0) => Deliveries(call[p].entry) = 1
    /\ \A i \in DOMAIN delivered : entries[delivered[i].entry].accepted

====
